---- MODULE Spec2Model ----
(***************************************************************************)
(* State-machine model of cobra/solvers/gurobi_solver.py: the translation  *)
(* of a cobra.Model into a gurobipy Model, the in-place update of its      *)
(* bounds and objective, the retry loop of solve and the extraction of a   *)
(* Solution.  The gurobipy backend is an opaque collaborator: the outcome  *)
(* of lp.optimize() is a nondeterministic choice.                          *)
(***************************************************************************)
EXTENDS Integers, Sequences, FiniteSets, TLC

VARIABLES
    cobra_model,     \* the caller's cobra.Model (reactions, metabolites)
    lp,              \* the gurobipy Model handle in use, or NoProblem
    pc,              \* position of the caller / of solve
    the_parameters,  \* solve's local dict the_parameters
    the_methods,     \* solve's local list the_methods
    position,        \* index in the_methods of the next loop iteration
    status,          \* solve's local variable status
    outcome,         \* what the last call handed back: a value or an exception
    attempts,        \* the current solve's runs of lp.optimize(): method, status
    backend_calls,   \* the backend primitives the current call has invoked
    call             \* the last call: its name, its arguments, the lp before it

vars == <<cobra_model, lp, pc, the_parameters, the_methods, position, status,
          outcome, attempts, backend_calls, call>>

---------------------------------------------------------------------------
(* Bounds of the model *)

MaxReactions == 2
MaxMetabolites == 2

---------------------------------------------------------------------------
(* Python values *)

None == [none |-> TRUE]
Some(v) == [none |-> FALSE, val |-> v]

\* dict.update / item assignment
Put(d, k, v) == [x \in (DOMAIN d) \cup {k} |-> IF x = k THEN v ELSE d[x]]
Update(d, e) == [x \in (DOMAIN d) \cup (DOMAIN e) |->
                    IF x \in DOMAIN e THEN e[x] ELSE d[x]]
EmptyDict == [x \in {} |-> 0]

\* str(i) of a zero-based index; the i-th element of a Python list is the
\* (i+1)-th element of the sequence that models it
str(i) == ToString(i)
\* (as if enumerate counted from one)
IndexName_from_one(k) == str(k)
IndexName(k) == str(k - 1)

\* str.upper() on the constraint sense letters
upper(s) == CASE s = "e" -> "E"
              [] s = "l" -> "L"
              [] s = "g" -> "G"
              [] OTHER -> s

---------------------------------------------------------------------------
(* Module-level tables, lines 17-42 *)

parameter_defaults ==
    [k \in {"objective_sense", "tolerance_optimality", "tolerance_feasibility",
            "tolerance_integer", "lp_method", "log_file", "tolerance_barrier"} |->
        CASE k = "objective_sense" -> "maximize"
          [] k = "tolerance_optimality" -> "1e-6"
          [] k = "tolerance_feasibility" -> "1e-6"
          [] k = "tolerance_integer" -> "1e-9"
          [] k = "lp_method" -> 0
          [] k = "log_file" -> ""
          [] k = "tolerance_barrier" -> "1e-8"]

parameter_mappings ==
    [k \in {"log_file", "lp_method", "threads", "objective_sense",
            "output_verbosity", "quadratic_precision", "time_limit",
            "tolerance_feasibility", "tolerance_markowitz",
            "tolerance_optimality", "iteration_limit", "MIP_gap_abs",
            "MIP_gap"} |->
        CASE k = "log_file" -> "LogFile"
          [] k = "lp_method" -> "Method"
          [] k = "threads" -> "Threads"
          [] k = "objective_sense" -> "ModelSense"
          [] k = "output_verbosity" -> "OutputFlag"
          [] k = "quadratic_precision" -> "Quad"
          [] k = "time_limit" -> "TimeLimit"
          [] k = "tolerance_feasibility" -> "FeasibilityTol"
          [] k = "tolerance_markowitz" -> "MarkowitzTol"
          [] k = "tolerance_optimality" -> "OptimalityTol"
          [] k = "iteration_limit" -> "IterationLimit"
          [] k = "MIP_gap_abs" -> "MIPGapAbs"
          [] k = "MIP_gap" -> "MIPGap"]

variable_kind_dict ==
    [k \in {"continuous", "integer"} |->
        IF k = "continuous" THEN "GRB.CONTINUOUS" ELSE "GRB.INTEGER"]

sense_dict ==
    [k \in {"E", "L", "G"} |->
        CASE k = "E" -> "GRB.EQUAL"
          [] k = "L" -> "GRB.LESS_EQUAL"
          [] k = "G" -> "GRB.GREATER_EQUAL"]

objective_senses ==
    [k \in {"maximize", "minimize"} |->
        IF k = "maximize" THEN "GRB.MAXIMIZE" ELSE "GRB.MINIMIZE"]

status_dict ==
    [k \in {"GRB.OPTIMAL", "GRB.INFEASIBLE", "GRB.UNBOUNDED", "GRB.TIME_LIMIT"} |->
        CASE k = "GRB.OPTIMAL" -> "optimal"
          [] k = "GRB.INFEASIBLE" -> "infeasible"
          [] k = "GRB.UNBOUNDED" -> "unbounded"
          [] k = "GRB.TIME_LIMIT" -> "time_limit"]

---------------------------------------------------------------------------
(* The gurobipy Model, as far as this module uses it *)

NoProblem == [live |-> FALSE]

\* Model("")
Model ==
    [live |-> TRUE, vars |-> <<>>, constrs |-> <<>>, quad |-> EmptyDict,
     params |-> EmptyDict, attrs |-> EmptyDict,
     Status |-> "GRB.LOADED", hasSol |-> FALSE]

\* lp.addVar(lb, ub, obj, vtype, name)
addVar(m, lb, ub, obj, vtype, name) ==
    [m EXCEPT !.vars = Append(@, [VarName |-> name, LB |-> lb, UB |-> ub,
                                  Obj |-> obj, VType |-> vtype])]

\* lp.addConstr(LinExpr(coefficients, variables), sense, rhs, name); the
\* linear expression is a map from the names of its variables to coefficients
addConstr(m, row, sense, rhs, name) ==
    [m EXCEPT !.constrs = Append(@, [ConstrName |-> name, Sense |-> sense,
                                     RHS |-> rhs, row |-> row])]

\* (as if a model were a MIP only when no variable is continuous)
isMIP_all(m) == \A k \in DOMAIN m.vars : m.vars[k].VType # "GRB.CONTINUOUS"

\* lp.isMIP: the model holds a variable that is not continuous
isMIP(m) == \E k \in DOMAIN m.vars : m.vars[k].VType # "GRB.CONTINUOUS"

\* lp.getObjective(): the linear part is the variables' Obj attribute, the
\* quadratic part the terms of the last setObjective
getObjective(m) ==
    [lin |-> [k \in DOMAIN m.vars |-> m.vars[k].Obj], quad |-> m.quad]

\* QuadExpr.getLinExpr() / the duck-typed test of line 186
hasattr_getLinExpr(expr) == DOMAIN expr.quad # {}
getLinExpr(expr) == [lin |-> expr.lin, quad |-> EmptyDict]

\* lp.setObjective(expr): replaces the whole objective
setObjective(m, expr) ==
    [m EXCEPT !.vars = [k \in DOMAIN m.vars |->
                            [m.vars[k] EXCEPT !.Obj = expr.lin[k]]],
              !.quad = expr.quad]

\* lp.reset(): discards the solution information
reset(m) == [m EXCEPT !.Status = "GRB.LOADED", !.hasSol = FALSE]

---------------------------------------------------------------------------
(* get_status, lines 44-50 *)

get_status(m) ==
    IF m.Status \in DOMAIN status_dict THEN status_dict[m.Status] ELSE "failed"

---------------------------------------------------------------------------
(* set_parameter, lines 72-77 *)

\* objective_senses[parameter_value] raises KeyError on an unknown sense
set_parameter_raises(parameter_name, parameter_value) ==
    /\ parameter_name \in {"ModelSense", "objective_sense"}
    /\ parameter_value \notin DOMAIN objective_senses

set_parameter(m, parameter_name, parameter_value) ==
    IF parameter_name = "ModelSense" \/ parameter_name = "objective_sense"
    THEN [m EXCEPT !.attrs = Put(@, parameter_name,
                                 objective_senses[parameter_value])]
    ELSE LET name == IF parameter_name \in DOMAIN parameter_mappings
                     THEN parameter_mappings[parameter_name]
                     ELSE parameter_name
         IN  [m EXCEPT !.params = Put(@, name, parameter_value)]

\* [set_parameter(lp, parameter_mappings[k], v) for k, v in d.iteritems()
\*  if k in parameter_mappings], lines 138-139 and 203-204
RECURSIVE set_parameters(_, _, _)
set_parameters(m, d, keys) ==
    IF keys = {} THEN m
    ELSE LET k == CHOOSE x \in keys : TRUE
         IN  set_parameters(
                 IF k \in DOMAIN parameter_mappings
                 THEN set_parameter(m, parameter_mappings[k], d[k])
                 ELSE m,
                 d, keys \ {k})

set_parameters_raises(d) ==
    \E k \in DOMAIN d :
        /\ k \in DOMAIN parameter_mappings
        /\ set_parameter_raises(parameter_mappings[k], d[k])

---------------------------------------------------------------------------
(* set_quadratic_objective, lines 179-195 *)

\* the_value * 0.5; the quadratic components drawn below hold even values
Half(v) == v \div 2

\* QuadExpr.addTerms over the items of quadratic_objective.todok(); the
\* indices are zero-based positions in lp.getVars()
gur_quadratic_objective(m, dok) ==
    [p \in {<<m.vars[q[1] + 1].VarName, m.vars[q[2] + 1].VarName>> :
                q \in DOMAIN dok} |->
        LET q == CHOOSE q \in DOMAIN dok :
                    p = <<m.vars[q[1] + 1].VarName, m.vars[q[2] + 1].VarName>>
        IN  Half(dok[q])]

set_quadratic_objective_raises(m, quadratic_objective) ==
    ~quadratic_objective.has_todok

set_quadratic_objective(m, quadratic_objective) ==
    LET objective == getObjective(m)
        linear_objective == IF hasattr_getLinExpr(objective)
                            THEN getLinExpr(objective)
                            ELSE objective
    IN  setObjective(m, [lin |-> linear_objective.lin,
                         quad |-> gur_quadratic_objective(
                                      m, quadratic_objective.dok)])

---------------------------------------------------------------------------
(* create_problem, lines 123-176 *)

\* lines 133-136
merged_parameters(kwargs) ==
    IF kwargs # EmptyDict THEN Update(parameter_defaults, kwargs)
    ELSE parameter_defaults

\* lines 144-149: one variable per reaction, in order, named by its index;
\* float() leaves the value of the integer bounds drawn here as it is
RECURSIVE add_variables(_, _, _)
add_variables(m, reactions, k) ==
    IF k > Len(reactions) THEN m
    ELSE add_variables(
             addVar(m, reactions[k].lower_bound, reactions[k].upper_bound,
                    reactions[k].objective_coefficient,
                    variable_kind_dict[reactions[k].variable_kind],
                    IndexName(k)),
             reactions, k + 1)

\* lines 150-151: dict(zip(cobra_model.reactions, variable_list)); a reaction
\* is identified by its position in cobra_model.reactions
reaction_to_variable(m, reactions) ==
    [k \in DOMAIN reactions |-> m.vars[k].VarName]

\* lines 160-164: the terms of one metabolite's row
constraint_row(m, model, j) ==
    LET r2v == reaction_to_variable(m, model.reactions)
    IN  [name \in {r2v[k] : k \in model.metabolites[j]._reaction} |->
            LET k == CHOOSE k \in model.metabolites[j]._reaction : r2v[k] = name
            IN  model.reactions[k]._metabolites[j]]

\* lines 159-169
RECURSIVE add_constraints(_, _, _)
add_constraints(m, model, j) ==
    IF j > Len(model.metabolites) THEN m
    ELSE add_constraints(
             addConstr(m, constraint_row(m, model, j),
                       sense_dict[upper(model.metabolites[j]._constraint_sense)],
                       model.metabolites[j]._bound,
                       IndexName(j)),
             model, j + 1)

create_problem_raises(model, quadratic_component, kwargs) ==
    \/ set_parameters_raises(merged_parameters(kwargs))
    \/ /\ ~quadratic_component.none
       /\ set_quadratic_objective_raises(Model, quadratic_component.val)

create_problem(model, quadratic_component, kwargs) ==
    LET silenced == set_parameter(Model, "OutputFlag", 0)
        the_params == merged_parameters(kwargs)
        configured == set_parameters(silenced, the_params, DOMAIN the_params)
        with_vars == add_variables(configured, model.reactions, 1)
        with_rows == add_constraints(with_vars, model, 1)
    IN  IF quadratic_component.none THEN with_rows
        ELSE set_quadratic_objective(with_rows, quadratic_component.val)

---------------------------------------------------------------------------
(* update_problem, lines 96-120 *)

Min(a, b) == IF a < b THEN a ELSE b

\* (as if line 120 wrote the lower bound to obj)
rewrite_variables_obj(m, reactions) ==
    [m EXCEPT !.vars =
        [k \in DOMAIN m.vars |->
            IF k <= Min(Len(m.vars), Len(reactions))
            THEN [m.vars[k] EXCEPT
                      !.LB = reactions[k].lower_bound,
                      !.UB = reactions[k].upper_bound,
                      !.Obj = reactions[k].lower_bound]
            ELSE m.vars[k]]]

\* lines 116-120: zip(lp.getVars(), cobra_model.reactions)
rewrite_variables(m, reactions) ==
    [m EXCEPT !.vars =
        [k \in DOMAIN m.vars |->
            IF k <= Min(Len(m.vars), Len(reactions))
            THEN [m.vars[k] EXCEPT
                      !.LB = reactions[k].lower_bound,
                      !.UB = reactions[k].upper_bound,
                      !.Obj = reactions[k].objective_coefficient]
            ELSE m.vars[k]]]

\* the Model the loop of lines 116-120 writes to: lp itself, or lp.copy()
\* when copy_problem is set, after lp.reset() when reuse_basis is false
update_problem(m, model, kwargs) ==
    LET reused == IF "reuse_basis" \in DOMAIN kwargs /\ ~kwargs["reuse_basis"]
                  THEN reset(m) ELSE m
    IN  rewrite_variables(reused, model.reactions)

copies_problem(kwargs) ==
    "copy_problem" \in DOMAIN kwargs /\ kwargs["copy_problem"]

---------------------------------------------------------------------------
(* solve_problem, lines 197-209 *)

\* what lp.optimize() can do: end with a status code, with or without a
\* solution to read, or raise, leaving the solution information as it was or
\* discarded
BackendResults ==
    {[raises |-> FALSE, Status |-> "GRB.OPTIMAL", hasSol |-> TRUE],
     [raises |-> FALSE, Status |-> "GRB.INFEASIBLE", hasSol |-> FALSE],
     [raises |-> FALSE, Status |-> "GRB.UNBOUNDED", hasSol |-> FALSE],
     [raises |-> FALSE, Status |-> "GRB.TIME_LIMIT", hasSol |-> TRUE],
     [raises |-> FALSE, Status |-> "GRB.TIME_LIMIT", hasSol |-> FALSE],
     [raises |-> FALSE, Status |-> "GRB.INF_OR_UNBD", hasSol |-> FALSE],
     [raises |-> TRUE, keeps |-> TRUE],
     [raises |-> TRUE, keeps |-> FALSE]}

optimize(m, r) ==
    IF r.raises THEN (IF r.keeps THEN m ELSE reset(m))
    ELSE [m EXCEPT !.Status = r.Status, !.hasSol = r.hasSol]

\* the Model after solve_problem(lp, **kwargs) when lp.optimize() does r;
\* lp.update() only integrates what was set before it
solve_problem(m, kwargs, r) ==
    optimize(set_parameters(m, kwargs, DOMAIN kwargs), r)

---------------------------------------------------------------------------
(* format_solution, lines 55-70 *)

\* lp.ObjVal, v.X and c.Pi are there to read only when the backend holds a
\* solution; reading them otherwise raises
format_solution_raises(m) ==
    get_status(m) \in {"optimal", "time_limit"} /\ ~m.hasSol

\* the result attributes format_solution reads
format_solution_reads(m) ==
    IF get_status(m) \notin {"optimal", "time_limit"} THEN {}
    ELSE {"ObjVal", "X"} \cup (IF isMIP(m) THEN {} ELSE {"Pi"})

\* {o.id: value for o, value in izip(objects, values)}
id_dict(objects, values) ==
    [i \in {objects[k].id : k \in 1..Min(Len(objects), Len(values))} |->
        values[CHOOSE k \in 1..Min(Len(objects), Len(values)) :
                   objects[k].id = i]]

\* Solution(objective_value, x, x_dict, y, y_dict, status); the arguments
\* left out default to None
Solution(f, x, x_dict, y, y_dict, the_status) ==
    [f |-> f, x |-> x, x_dict |-> x_dict, y |-> y, y_dict |-> y_dict,
     status |-> the_status]

\* (as if line 57 let 'unbounded' through to the values)
format_solution_unbounded(m, model) ==
    LET the_status == get_status(m)
    IN  IF the_status \notin {"optimal", "time_limit", "unbounded"}
        THEN Solution(None, None, None, None, None, the_status)
        ELSE LET x == [k \in DOMAIN m.vars |-> <<"X", m.vars[k].VarName>>]
                 y == [j \in DOMAIN m.constrs |-> <<"Pi", m.constrs[j].ConstrName>>]
             IN  Solution(Some("ObjVal"), Some(x),
                          Some(id_dict(model.reactions, x)),
                          IF isMIP(m) THEN None ELSE Some(y),
                          IF isMIP(m) THEN None
                          ELSE Some(id_dict(model.metabolites, y)),
                          the_status)

format_solution(m, model) ==
    LET the_status == get_status(m)
    IN  IF the_status \notin {"optimal", "time_limit"}
        THEN Solution(None, None, None, None, None, the_status)
        ELSE LET x == [k \in DOMAIN m.vars |-> <<"X", m.vars[k].VarName>>]
                 y == [j \in DOMAIN m.constrs |-> <<"Pi", m.constrs[j].ConstrName>>]
             IN  Solution(Some("ObjVal"), Some(x),
                          Some(id_dict(model.reactions, x)),
                          IF isMIP(m) THEN None ELSE Some(y),
                          IF isMIP(m) THEN None
                          ELSE Some(id_dict(model.metabolites, y)),
                          the_status)

---------------------------------------------------------------------------
(* The caller's inputs: cobra models, keyword arguments, quadratic parts *)

\* lower_bound, upper_bound and objective_coefficient of a reaction
BoundChoices ==
    {[lower_bound |-> 0, upper_bound |-> 10, objective_coefficient |-> 1],
     [lower_bound |-> -5, upper_bound |-> 5, objective_coefficient |-> 0]}

KindChoices == {"continuous", "integer"}

\* _constraint_sense (either case) and _bound of a metabolite
MetaboliteChoices ==
    {[_constraint_sense |-> "E", _bound |-> 0],
     [_constraint_sense |-> "l", _bound |-> 3]}

\* the stoichiometric coefficient of reaction k in metabolite j: distinct
\* within a row, of opposite sign in neighbouring rows
StoichCoef(k, j) == IF j % 2 = 1 THEN k ELSE -k

\* a cobra.Model with reactions k of the given bounds and kinds, metabolites j
\* of the given sense and bound, and S[j] the reactions metabolite j takes part
\* in; Metabolite._reaction and Reaction._metabolites mirror each other
MakeModel(bounds, kinds, mets, S) ==
    [reactions |->
        [k \in DOMAIN bounds |->
            [id |-> "R" \o ToString(k),
             lower_bound |-> bounds[k].lower_bound,
             upper_bound |-> bounds[k].upper_bound,
             objective_coefficient |-> bounds[k].objective_coefficient,
             variable_kind |-> kinds[k],
             _metabolites |-> [j \in {j \in DOMAIN mets : k \in S[j]} |->
                                  StoichCoef(k, j)]]],
     metabolites |->
        [j \in DOMAIN mets |->
            [id |-> "M" \o ToString(j),
             _constraint_sense |-> mets[j]._constraint_sense,
             _bound |-> mets[j]._bound,
             _reaction |-> S[j]]]]

\* the reactions of a metabolite: none, all, the first or the last
RowChoices(N) == {{}, 1..N, {1}, {N}}

\* the models create_problem is applied to: up to MaxReactions reactions of
\* any bounds and kinds, up to MaxMetabolites metabolites of any sense and row
Models(N, M) ==
    {MakeModel(b, kd, mt, S) :
        b \in [1..N -> BoundChoices], kd \in [1..N -> KindChoices],
        mt \in [1..M -> MetaboliteChoices], S \in [1..M -> RowChoices(N)]}

\* the models solve is applied to: reactions of either kind with the first
\* bounds, every metabolite taking part in every reaction
DenseModels(N, M) ==
    {MakeModel(b, kd, mt, [j \in 1..M |-> 1..N]) :
        b \in [1..N -> {CHOOSE c \in BoundChoices : c.lower_bound = 0}],
        kd \in [1..N -> KindChoices],
        mt \in [1..M -> {CHOOSE c \in MetaboliteChoices : c._bound = 0}]}

\* the models a session starts from: reactions of alternating kind, with the
\* first bounds, metabolites of alternating sense taking part in every reaction
Alternate(choices, first, k) ==
    IF k % 2 = 1 THEN first ELSE CHOOSE c \in choices : c # first

SessionModel(N, M) ==
    MakeModel([k \in 1..N |-> CHOOSE c \in BoundChoices : c.lower_bound = 0],
              [k \in 1..N |-> Alternate(KindChoices, "continuous", k)],
              [j \in 1..M |->
                  Alternate(MetaboliteChoices,
                            CHOOSE c \in MetaboliteChoices : c._bound = 0, j)],
              [j \in 1..M |-> 1..N])

Only(k, v) == [x \in {k} |-> v]

\* quadratic components: a sparse matrix with todok(), or an object without
SparseMatrix(dok) == [has_todok |-> TRUE, dok |-> dok]
DenseMatrix == [has_todok |-> FALSE, dok |-> EmptyDict]

\* sparse matrices over N variables: an entry on the first variable, one on
\* the last, and both with the entry that couples them
QuadraticComponents(N) ==
    {SparseMatrix(Only(<<0, 0>>, 2)),
     SparseMatrix(Only(<<N - 1, N - 1>>, -4)),
     SparseMatrix([p \in {<<0, 0>>, <<N - 1, N - 1>>, <<0, N - 1>>} |->
                     IF p[1] = p[2] THEN 2 ELSE -4])}

\* an override for every parameter name create_problem knows or is handed
AllOverrides ==
    [k \in {"objective_sense", "tolerance_optimality", "tolerance_feasibility",
            "tolerance_integer", "tolerance_barrier", "tolerance_markowitz",
            "lp_method", "log_file", "threads", "output_verbosity",
            "quadratic_precision", "time_limit", "iteration_limit", "MIP_gap",
            "MIP_gap_abs"} |->
        CASE k = "objective_sense" -> "minimize"
          [] k = "lp_method" -> 1
          [] k = "log_file" -> "gurobi.log"
          [] k \in {"threads", "output_verbosity", "quadratic_precision"} -> 1
          [] k \in {"time_limit", "iteration_limit"} -> 100
          [] OTHER -> "1e-4"]

\* the calls of create_problem on a model of N reactions: the quadratic
\* component and the keyword arguments
CreateCalls(N) ==
    {<<None, EmptyDict>>,
     <<None, AllOverrides>>,
     <<None, Only("objective_sense", "largest")>>,
     <<Some(DenseMatrix), EmptyDict>>,
     <<Some(SparseMatrix(Only(<<0, 0>>, 2))), Only("time_limit", 100)>>,
     <<Some(SparseMatrix(Only(<<N - 1, N - 1>>, -4))), EmptyDict>>,
     <<Some(SparseMatrix([p \in {<<0, 0>>, <<N - 1, N - 1>>, <<0, N - 1>>} |->
                             IF p[1] = p[2] THEN 2 ELSE -4])),
       Only("objective_sense", "minimize")>>}

UpdateKwargs ==
    {EmptyDict, Only("copy_problem", TRUE), Only("reuse_basis", FALSE)}

---------------------------------------------------------------------------
(* What a call hands back *)

NoOutcome == [kind |-> "none"]
Returned(v) == [kind |-> "returned", value |-> v]
Raised(e) == [kind |-> "raised", exc |-> e]

NoCall == [name |-> "none"]

solve_locals == <<the_parameters, the_methods, position, status, attempts>>

---------------------------------------------------------------------------
(* The caller's operations on a Problem of its own *)

\* lp = create_problem(cobra_model, quadratic_component, **kwargs)
CreateProblem(quadratic_component, kwargs) ==
    /\ pc = "idle"
    /\ call' = [name |-> "create_problem", kwargs |-> kwargs,
                quadratic_component |-> quadratic_component]
    /\ IF create_problem_raises(cobra_model, quadratic_component, kwargs)
       THEN /\ lp' = lp
            /\ backend_calls' = {"Model"}
            /\ outcome' = Raised(IF set_parameters_raises(merged_parameters(kwargs))
                                 THEN "KeyError"
                                 ELSE "quadratic component must have method todok")
       ELSE /\ lp' = create_problem(cobra_model, quadratic_component, kwargs)
            /\ backend_calls' = {"Model"}
            /\ outcome' = Returned("lp")
    /\ UNCHANGED <<cobra_model, pc, solve_locals>>

\* the caller edits the bounds and the objective coefficient of a reaction
ChangeReaction(k, bounds) ==
    /\ pc = "idle"
    /\ k \in DOMAIN cobra_model.reactions
    /\ cobra_model' =
          [cobra_model EXCEPT
              !.reactions[k].lower_bound = bounds.lower_bound,
              !.reactions[k].upper_bound = bounds.upper_bound,
              !.reactions[k].objective_coefficient = bounds.objective_coefficient]
    /\ call' = [name |-> "change_reaction"]
    /\ outcome' = NoOutcome
    /\ UNCHANGED <<lp, pc, backend_calls, solve_locals>>

\* update_problem(lp, cobra_model, **kwargs): returns nothing; with
\* copy_problem the copy it writes to is dropped on return
UpdateProblem(kwargs) ==
    /\ pc = "idle"
    /\ lp.live
    /\ call' = [name |-> "update_problem", kwargs |-> kwargs]
    /\ lp' = IF copies_problem(kwargs) THEN lp
             ELSE update_problem(lp, cobra_model, kwargs)
    /\ outcome' = Returned("None")
    /\ backend_calls' = {}
    /\ UNCHANGED <<cobra_model, pc, solve_locals>>

\* set_quadratic_objective(lp, quadratic_objective)
SetQuadraticObjective(quadratic_objective) ==
    /\ pc = "idle"
    /\ lp.live
    /\ call' = [name |-> "set_quadratic_objective",
                quadratic_objective |-> quadratic_objective,
                before |-> getObjective(lp)]
    /\ IF set_quadratic_objective_raises(lp, quadratic_objective)
       THEN /\ lp' = lp
            /\ outcome' = Raised("quadratic component must have method todok")
       ELSE /\ lp' = set_quadratic_objective(lp, quadratic_objective)
            /\ outcome' = Returned("None")
    /\ backend_calls' = {}
    /\ UNCHANGED <<cobra_model, pc, solve_locals>>

\* status = solve_problem(lp, **kwargs)
SolveProblem(kwargs, r) ==
    /\ pc = "idle"
    /\ lp.live
    /\ call' = [name |-> "solve_problem", kwargs |-> kwargs]
    /\ lp' = solve_problem(lp, kwargs, r)
    /\ outcome' = IF r.raises THEN Raised("GurobiError")
                  ELSE Returned(get_status(lp'))
    /\ backend_calls' = {"setParam", "optimize"}
    /\ UNCHANGED <<cobra_model, pc, solve_locals>>

---------------------------------------------------------------------------
(* solve, lines 212-255 *)

removed_options == <<"new_objective", "update_problem", "the_problem">>

\* the keyword arguments solve is called with
SolveKwargs ==
    {EmptyDict,
     Only("lp_method", -1), Only("lp_method", 0), Only("lp_method", 1),
     Only("lp_method", 2),
     Only("new_objective", "objective"), Only("update_problem", TRUE),
     Only("the_problem", "lp"),
     Only("error_reporting", TRUE),
     Update(Only("error_reporting", TRUE), Only("the_problem", "lp")),
     Update(Only("error_reporting", TRUE), Only("lp_method", 2)),
     Only("objective_sense", "largest"),
     Only("quadratic_component", DenseMatrix),
     Only("quadratic_component", SparseMatrix(Only(<<0, 0>>, 2)))}

\* lines 218-225: the merged parameters, and the first removed option in them
solve_parameters(kwargs) ==
    IF kwargs # EmptyDict THEN Update(parameter_defaults, kwargs)
    ELSE parameter_defaults

\* (as if the loop of line 221 left the_problem out)
removed_in_short(params) ==
    {i \in DOMAIN removed_options :
        removed_options[i] \in DOMAIN params /\ removed_options[i] # "the_problem"}

removed_in(params) ==
    {i \in DOMAIN removed_options : removed_options[i] \in DOMAIN params}

\* create_problem(cobra_model, **the_parameters): quadratic_component binds
\* the named argument, the other keys are its kwargs
named_quadratic(params) ==
    IF "quadratic_component" \in DOMAIN params
    THEN Some(params["quadratic_component"]) ELSE None

other_kwargs(params) ==
    [k \in (DOMAIN params) \ {"quadratic_component"} |-> params[k]]

\* lines 232-240: the preferred method, then the others of [0, 2, 1]
RECURSIVE list_remove(_, _)
list_remove(l, v) ==
    IF l = <<>> THEN <<>>
    ELSE IF Head(l) = v THEN Tail(l)
    ELSE <<Head(l)>> \o list_remove(Tail(l), v)

list_in(v, l) == \E i \in DOMAIN l : l[i] = v

\* (as if line 238 did not remove the preferred method)
attempt_list_repeating(params) ==
    LET lp_method == IF "lp_method" \in DOMAIN params
                     THEN params["lp_method"] ELSE 0
    IN  <<lp_method>> \o <<0, 2, 1>>

attempt_list(params) ==
    LET lp_method == IF "lp_method" \in DOMAIN params
                     THEN params["lp_method"] ELSE 0
        fallback == <<0, 2, 1>>
        others == IF list_in(lp_method, fallback)
                  THEN list_remove(fallback, lp_method) ELSE fallback
    IN  <<lp_method>> \o others

\* lines 218-240: merge, validate, build the problem, order the methods
SolveBegin(kwargs) ==
    /\ pc = "idle"
    /\ call' = [name |-> "solve", kwargs |-> kwargs]
    /\ the_parameters' = solve_parameters(kwargs)
    /\ attempts' = <<>>
    /\ position' = 1
    /\ status' = "unset"
    /\ LET params == solve_parameters(kwargs)
           removed == removed_in(params)
           quadratic == named_quadratic(params)
           rest == other_kwargs(params)
       IN  IF removed # {}
           THEN /\ outcome' = Raised("Option " \o
                       removed_options[CHOOSE i \in removed :
                                          \A j \in removed : i <= j]
                       \o " removed")
                /\ lp' = NoProblem
                /\ backend_calls' = {}
                /\ the_methods' = <<>>
                /\ pc' = "idle"
           ELSE IF create_problem_raises(cobra_model, quadratic, rest)
           THEN /\ outcome' = Raised("create_problem")
                /\ lp' = NoProblem
                /\ backend_calls' = {"Model"}
                /\ the_methods' = <<>>
                /\ pc' = "idle"
           ELSE /\ outcome' = NoOutcome
                /\ lp' = create_problem(cobra_model, quadratic, rest)
                /\ backend_calls' = {"Model"}
                /\ the_methods' = attempt_list(params)
                /\ pc' = "loop"
    /\ UNCHANGED cobra_model

\* lines 241-248: one iteration of the loop over the_methods
SolveAttempt(r) ==
    /\ pc = "loop"
    /\ position <= Len(the_methods)
    /\ LET the_method == the_methods[position]
           params == Put(the_parameters, "lp_method", the_method)
           solved == solve_problem(lp, params, r)
           new_status == IF r.raises THEN "failed" ELSE get_status(solved)
       IN  /\ the_parameters' = params
           /\ lp' = solved
           /\ status' = new_status
           /\ attempts' = Append(attempts, [method |-> the_method,
                                                status |-> new_status])
           /\ backend_calls' = backend_calls \cup {"setParam", "optimize"}
           /\ IF new_status = "optimal" \/ position = Len(the_methods)
              THEN pc' = "format" /\ position' = position
              ELSE pc' = "loop" /\ position' = position + 1
    /\ UNCHANGED <<cobra_model, the_methods, outcome, call>>

\* lines 250-255: the Solution read off the problem, outside the try
SolveReturn ==
    /\ pc = "format"
    /\ outcome' = IF format_solution_raises(lp) THEN Raised("GurobiError")
                  ELSE Returned(format_solution(lp, cobra_model))
    /\ backend_calls' = backend_calls \cup format_solution_reads(lp)
    /\ pc' = "idle"
    /\ UNCHANGED <<cobra_model, lp, solve_locals, call>>

---------------------------------------------------------------------------
(* Specifications *)

InitWith(models) ==
    /\ cobra_model \in models
    /\ lp = NoProblem
    /\ pc = "idle"
    /\ the_parameters = EmptyDict
    /\ the_methods = <<>>
    /\ position = 1
    /\ status = "unset"
    /\ outcome = NoOutcome
    /\ attempts = <<>>
    /\ backend_calls = {}
    /\ call = NoCall

\* solve on a model
Init ==
    \E N \in 1..MaxReactions : \E M \in 0..MaxMetabolites :
        InitWith(DenseModels(N, M))

Next ==
    \/ \E kwargs \in SolveKwargs : SolveBegin(kwargs)
    \/ \E r \in BackendResults : SolveAttempt(r)
    \/ SolveReturn

Spec == Init /\ [][Next]_vars

\* create_problem on every model
InitCreate ==
    \E N \in 1..MaxReactions : \E M \in 0..MaxMetabolites :
        InitWith(Models(N, M))

NextCreate ==
    \E c \in CreateCalls(Len(cobra_model.reactions)) :
        call = NoCall /\ CreateProblem(c[1], c[2])

SpecCreate == InitCreate /\ [][NextCreate]_vars

\* a session on one problem: build, edit the model, update, solve, read
InitSession ==
    \E N \in 1..MaxReactions : InitWith({SessionModel(N, MaxMetabolites)})

NextSession ==
    \/ lp = NoProblem /\ CreateProblem(None, EmptyDict)
    \/ \E k \in 1..MaxReactions : \E b \in BoundChoices : ChangeReaction(k, b)
    \/ \E kwargs \in UpdateKwargs : UpdateProblem(kwargs)
    \/ \E q \in {DenseMatrix} \cup QuadraticComponents(Len(cobra_model.reactions)) :
          SetQuadraticObjective(q)
    \/ \E r \in BackendResults : SolveProblem(EmptyDict, r)

SpecSession == InitSession /\ [][NextSession]_vars

---------------------------------------------------------------------------
(* Properties of solve, checked under Spec *)

\* solve got past validation and problem construction in the current call
SolveBuilt == call.name = "solve" /\ the_methods # <<>>

\* solve is past its loop over the_methods
LoopOver == SolveBuilt /\ pc # "loop"

\* solve has handed a Solution back
SolveReturned == SolveBuilt /\ pc = "idle" /\ outcome.kind = "returned"

PreferredMethod ==
    IF "lp_method" \in DOMAIN call.kwargs THEN call.kwargs["lp_method"] ELSE 0

ExpectedMethods ==
    <<PreferredMethod>> \o SelectSeq(<<0, 2, 1>>, LAMBDA m : m # PreferredMethod)

\* C1: the methods lp.optimize() runs on are, in order, the preferred
\* lp_method and then the others of 0, 2, 1; no attempt follows an attempt
\* that ended 'optimal', and the loop ends only after an 'optimal' attempt or
\* after the last method of the list.
C1_AttemptOrder ==
    SolveBuilt =>
        /\ Len(attempts) <= Len(ExpectedMethods)
        /\ \A i \in DOMAIN attempts : attempts[i].method = ExpectedMethods[i]
        /\ \A i \in DOMAIN attempts :
              i < Len(attempts) => attempts[i].status # "optimal"
        /\ LoopOver =>
              /\ attempts # <<>>
              /\ \/ attempts[Len(attempts)].status = "optimal"
                 \/ Len(attempts) = Len(ExpectedMethods)
        /\ (attempts # <<>> /\ attempts[1].status = "optimal") =>
              Len(attempts) = 1

\* a solve that preferred method 2, saw it end 'time_limit' and stopped at
\* the 'optimal' of method 0
C1_Witness ==
    /\ LoopOver
    /\ PreferredMethod = 2
    /\ Len(attempts) = 2
    /\ attempts[1].status = "time_limit"
    /\ attempts[2] = [method |-> 0, status |-> "optimal"]

\* C2: the status of the Solution solve returns is the status of the last
\* attempt, an attempt that raised counting as 'failed'; when every attempt
\* failed it is 'failed'.
C2_LastAttemptStatus ==
    SolveReturned =>
        /\ outcome.value.status = attempts[Len(attempts)].status
        /\ (\A i \in DOMAIN attempts : attempts[i].status = "failed") =>
              outcome.value.status = "failed"

\* C3: once the problem is built, solve returns a Solution and raises
\* nothing, whatever the attempts did.
C3_AlwaysReturns ==
    (SolveBuilt /\ pc = "idle") => outcome.kind = "returned"

ResultAttributes == {"ObjVal", "X", "Pi"}

\* C4: a Solution whose status is not 'optimal' or 'time_limit' has status
\* 'infeasible', 'unbounded' or 'failed' and carries no objective value, no
\* primal values and no dual values, and no result attribute of the backend
\* was read to make it.
C4_NoValuesWithoutSolution ==
    (SolveReturned /\ outcome.value.status \notin {"optimal", "time_limit"}) =>
        /\ outcome.value.status \in {"infeasible", "unbounded", "failed"}
        /\ outcome.value.f.none
        /\ outcome.value.x.none
        /\ outcome.value.x_dict.none
        /\ outcome.value.y.none
        /\ outcome.value.y_dict.none
        /\ backend_calls \cap ResultAttributes = {}

\* a Solution 'failed' off a backend status code outside the table
C4_Witness ==
    /\ SolveReturned
    /\ lp.Status = "GRB.INF_OR_UNBD"
    /\ outcome.value.status = "failed"

HasIntegerReaction ==
    \E k \in DOMAIN cobra_model.reactions :
        cobra_model.reactions[k].variable_kind = "integer"

MetaboliteIds ==
    {cobra_model.metabolites[j].id : j \in DOMAIN cobra_model.metabolites}

\* C5, as claimed: the duals of a Solution are populated exactly when the
\* model has no integer reaction, whatever the status.
C5_DualsIffContinuous ==
    SolveReturned =>
        (~outcome.value.y.none /\ ~outcome.value.y_dict.none) <=> ~HasIntegerReaction

\* C5, amended: the duals of a Solution are populated exactly when the model
\* has no integer reaction and the status is 'optimal' or 'time_limit'; they
\* are then one per metabolite, keyed by metabolite id.
C5_DualsIffContinuousAndSolved ==
    SolveReturned =>
        LET solved == outcome.value.status \in {"optimal", "time_limit"}
        IN  /\ outcome.value.y.none <=> outcome.value.y_dict.none
            /\ ~outcome.value.y.none <=> (~HasIntegerReaction /\ solved)
            /\ ~outcome.value.y.none =>
                  /\ Len(outcome.value.y.val) = Len(cobra_model.metabolites)
                  /\ DOMAIN outcome.value.y_dict.val = MetaboliteIds

\* the duals of a continuous model, one per metabolite, at 'time_limit'
C5_Witness ==
    /\ SolveReturned
    /\ ~HasIntegerReaction
    /\ Len(cobra_model.reactions) = MaxReactions
    /\ Len(cobra_model.metabolites) = MaxMetabolites
    /\ outcome.value.status = "time_limit"
    /\ ~outcome.value.y_dict.none

RemovedNames == {"new_objective", "update_problem", "the_problem"}

\* C6: solve called with a removed option raises before a problem is made
\* and before any attempt; called with error_reporting and no removed option
\* it builds the problem and makes its attempts.
C6_RemovedOptionsFailFast ==
    call.name = "solve" =>
        /\ (DOMAIN call.kwargs) \cap RemovedNames # {} =>
              /\ pc = "idle"
              /\ outcome.kind = "raised"
              /\ outcome.exc \in {"Option " \o n \o " removed" : n \in RemovedNames}
              /\ lp = NoProblem
              /\ attempts = <<>>
              /\ backend_calls = {}
        /\ ("error_reporting" \in DOMAIN call.kwargs
               /\ (DOMAIN call.kwargs) \cap RemovedNames = {}) =>
              /\ lp.live
              /\ "Model" \in backend_calls
              /\ pc = "idle" => attempts # <<>>

\* the_problem handed to solve together with error_reporting
C6_Witness ==
    /\ call.name = "solve"
    /\ DOMAIN call.kwargs = {"error_reporting", "the_problem"}
    /\ outcome.kind = "raised"
    /\ outcome.exc = "Option the_problem removed"

---------------------------------------------------------------------------
(* Properties of create_problem, checked under SpecCreate *)

Created == call.name = "create_problem" /\ outcome.kind = "returned"

\* the k-th variable is named by its zero-based index and has the kind of the
\* k-th reaction
VariablesMatchReactions ==
    /\ Len(lp.vars) = Len(cobra_model.reactions)
    /\ \A k \in DOMAIN lp.vars :
          /\ lp.vars[k].VarName = ToString(k - 1)
          /\ lp.vars[k].VType =
                (IF cobra_model.reactions[k].variable_kind = "integer"
                 THEN "GRB.INTEGER" ELSE "GRB.CONTINUOUS")

\* the k-th variable has the bounds and objective coefficient of the k-th
\* reaction
BoundsMatchReactions ==
    \A k \in DOMAIN lp.vars :
        /\ lp.vars[k].LB = cobra_model.reactions[k].lower_bound
        /\ lp.vars[k].UB = cobra_model.reactions[k].upper_bound
        /\ lp.vars[k].Obj = cobra_model.reactions[k].objective_coefficient

SenseOf(letter) ==
    CASE letter \in {"E", "e"} -> "GRB.EQUAL"
      [] letter \in {"L", "l"} -> "GRB.LESS_EQUAL"
      [] letter \in {"G", "g"} -> "GRB.GREATER_EQUAL"

\* the j-th constraint is named by its zero-based index, has the sense and
\* right-hand side of the j-th metabolite, and its terms are the variables of
\* the metabolite's reactions with their stoichiometric coefficients
ConstraintsMatchMetabolites ==
    /\ Len(lp.constrs) = Len(cobra_model.metabolites)
    /\ \A j \in DOMAIN lp.constrs :
          LET c == lp.constrs[j]
              met == cobra_model.metabolites[j]
          IN  /\ c.ConstrName = ToString(j - 1)
              /\ c.Sense = SenseOf(met._constraint_sense)
              /\ c.RHS = met._bound
              /\ DOMAIN c.row = {ToString(k - 1) : k \in met._reaction}
              /\ \A k \in met._reaction :
                    c.row[ToString(k - 1)] =
                        cobra_model.reactions[k]._metabolites[j]

\* C7: create_problem returns a Problem with one variable per reaction and
\* one constraint per metabolite, in order, named by index, with the
\* reaction's bounds, objective coefficient and kind and the metabolite's
\* sense, right-hand side and stoichiometric row; an empty reaction set gives
\* a constraint without terms.
C7_ProblemMatchesModel ==
    Created =>
        /\ VariablesMatchReactions
        /\ BoundsMatchReactions
        /\ ConstraintsMatchMetabolites

\* a problem of MaxReactions variables and MaxMetabolites constraints, one
\* of them over no reaction, one over all
C7_Witness ==
    /\ Created
    /\ Len(lp.vars) = MaxReactions
    /\ Len(lp.constrs) = MaxMetabolites
    /\ \E j \in DOMAIN lp.constrs : DOMAIN lp.constrs[j].row = {}
    /\ \E j \in DOMAIN lp.constrs :
          Cardinality(DOMAIN lp.constrs[j].row) = MaxReactions
    /\ \E k \in DOMAIN lp.vars : lp.vars[k].VType = "GRB.INTEGER"

CanonicalNames ==
    {"objective_sense", "tolerance_optimality", "tolerance_feasibility",
     "tolerance_integer", "tolerance_barrier", "tolerance_markowitz",
     "lp_method", "log_file", "threads", "output_verbosity",
     "quadratic_precision", "time_limit", "iteration_limit", "MIP_gap",
     "MIP_gap_abs"}

\* the caller's overrides merged over the defaults, override winning
MergedOverDefaults ==
    [k \in (DOMAIN parameter_defaults) \cup (DOMAIN call.kwargs) |->
        IF k \in DOMAIN call.kwargs THEN call.kwargs[k]
        ELSE parameter_defaults[k]]

\* C10: every canonical parameter name in the merged parameter set has a
\* backend name, and create_problem has set the merged value under it
\* (objective_sense through the sense table).
C10_EveryParameterApplied ==
    Created =>
        \A k \in CanonicalNames \cap DOMAIN MergedOverDefaults :
            /\ k \in DOMAIN parameter_mappings
            /\ IF k = "objective_sense"
               THEN /\ "ModelSense" \in DOMAIN lp.attrs
                    /\ lp.attrs["ModelSense"] =
                          (IF MergedOverDefaults[k] = "maximize"
                           THEN "GRB.MAXIMIZE" ELSE "GRB.MINIMIZE")
               ELSE /\ parameter_mappings[k] \in DOMAIN lp.params
                    /\ lp.params[parameter_mappings[k]] = MergedOverDefaults[k]

---------------------------------------------------------------------------
(* Properties of a session, checked under SpecSession *)

\* the quadratic terms of two expressions, added
AddTerms(f, g) ==
    [p \in (DOMAIN f) \cup (DOMAIN g) |->
        (IF p \in DOMAIN f THEN f[p] ELSE 0) + (IF p \in DOMAIN g THEN g[p] ELSE 0)]

\* the terms 0.5 * Q[row, col] on the variables of position row and col; the
\* values of Q are even
HalfOf(dok) ==
    [p \in {<<ToString(q[1]), ToString(q[2])>> : q \in DOMAIN dok} |->
        LET q == CHOOSE q \in DOMAIN dok : p = <<ToString(q[1]), ToString(q[2])>>
        IN  dok[q] \div 2]

\* C8: after set_quadratic_objective the objective is the linear part it
\* had, the quadratic terms it had, and the terms 0.5 * Q[row, col] added.
C8_QuadraticIsAdditive ==
    (call.name = "set_quadratic_objective" /\ outcome.kind = "returned") =>
        /\ getObjective(lp).lin = call.before.lin
        /\ lp.quad = AddTerms(call.before.quad, HalfOf(call.quadratic_objective.dok))

InPlaceUpdate ==
    /\ call.name = "update_problem"
    /\ ~("copy_problem" \in DOMAIN call.kwargs /\ call.kwargs["copy_problem"])

\* C9: over any sequence of edits of the reactions' bounds and objective
\* coefficients, updates and solves, the problem keeps the variables and
\* constraints it was built with (number, names, kinds, senses, right-hand
\* sides, coefficients), and right after an in-place update_problem every
\* variable has the bounds and objective coefficient of its reaction.
C9_UpdateRewritesBoundsOnly ==
    lp.live =>
        /\ VariablesMatchReactions
        /\ ConstraintsMatchMetabolites
        /\ InPlaceUpdate => BoundsMatchReactions

\* an in-place update after the last reaction was edited and the problem
\* was solved
C9_Witness ==
    /\ lp.live
    /\ InPlaceUpdate
    /\ Len(lp.vars) = MaxReactions
    /\ lp.vars[MaxReactions].LB = -5
    /\ lp.vars[1].LB = 0
    /\ lp.Status = "GRB.OPTIMAL"

====
